---- MODULE Spec2Model ----
(***************************************************************************)
(* State-machine model of the concurrency core of n-util: Deferred, Mutex, *)
(* BackgroundProcessor and the method-execution decorators.  Every step of *)
(* the model is one synchronous section of the event loop (the code that   *)
(* runs between two suspension points).                                    *)
(***************************************************************************)
EXTENDS Integers, Sequences, FiniteSets, TLC

\* ------------------------------------------------------------------ bounds
NumCallers == 3          \* concurrent callers of a Mutex
MaxLocks == 4            \* lock() calls made on the Mutex in one behaviour
MaxActions == 3          \* processAction calls made on the BackgroundProcessor
MaxDispose == 2          \* dispose calls made on the BackgroundProcessor
MaxDedupeCalls == 4      \* calls of the dedupe-wrapped method
MaxDeferredCalls == 4    \* resolve/reject calls made on one Deferred
MaxDebounceCalls == 4    \* calls of the debounce-wrapped method
MaxThrottleCalls == 4    \* calls of the throttle-wrapped method
DelayTicks == 2          \* the Duration a decorator is configured with, in clock ticks
MaxTimes == 3            \* largest numberOfTimes given to Make.loopAsync
MaxParallel == 2         \* largest degreesOfParallelism given to Make.loopAsync

Null == 0                \* JavaScript null / undefined for object references

Callers == 1..NumCallers
DeferredIds == 1..MaxLocks
ActionIds == 1..MaxActions
DisposeIds == 1..MaxDispose
DedupeCalls == 1..MaxDedupeCalls
DebounceCalls == 1..MaxDebounceCalls
ThrottleCalls == 1..MaxThrottleCalls
DeferredValues == {"v1", "v2"}   \* the values a Deferred may be resolved with
Errors == {"E1", "E2"}   \* the errors a callable may throw or reject with
LiveErrors == {"E1"}

VARIABLE inUse   \* the component the behaviour exercises

VARIABLES
    \* ---- Deferred (one, settled by its users)
    dfPromise,       \* Deferred._promise: its status and its value or reason
    dfCalls,         \* history: the resolve/reject calls made, in order
    dfRaised         \* whether a resolve or reject call has thrown

deferredVars == <<dfPromise, dfCalls, dfRaised>>

VARIABLES
    \* ---- Deferred (one per lock() call)
    dState,          \* promise state of each Deferred: unborn/pending/resolved
    \* ---- Mutex
    mDeferreds,      \* Mutex._deferreds
    mCurrent,        \* Mutex._currentDeferred
    mCount,          \* number of lock() calls made so far (Deferreds created)
    mPc,             \* per caller: idle / waiting (awaits lock()) / holding
    mDef,            \* per caller: the Deferred its last lock() created
    mResult,         \* per caller: how its last critical section ended (none/ok/error)
    lockOrder,       \* history: Deferreds in the order lock() was called
    grantOrder       \* history: Deferreds in the order their promise resolved

mutexVars == <<dState, mDeferreds, mCurrent, mCount, mPc, mDef, mResult, lockOrder,
               grantOrder>>

VARIABLES
    \* ---- BackgroundProcessor
    bpInterval,      \* _breakIntervalMilliseconds
    bpBreakOnly,     \* _breakOnlyWhenNoWork
    bpQueue,         \* _actionsToProcess
    bpExecuting,     \* _actionsExecuting
    bpDisposed,      \* _isDisposed
    bpTimers,        \* number of setTimeout callbacks still to fire
    bpTimerDelay,    \* the delay that timer was armed with
    bpCount,         \* number of processAction calls made so far
    paResult,        \* outcome of the last processAction call, seen by its caller
    submitOrder,     \* history: actions in the order they were accepted
    startOrder,      \* history: actions in the order execute() was called on them
    aPhase,          \* per action: unsubmitted/rejected/pending/running/handling/done
    aGiven,          \* per action: the errorHandler argument of processAction
    aHandler,        \* per action: Action._errorHandler
    aCallback,       \* per action: which postExecuteCallback execute() was given
    aError,          \* per action: the error its callable failed with
    aHandlerLog,     \* per action: the error handler invocations <<handler, error>>
    aCallbackRuns,   \* per action: how many times its postExecuteCallback ran
    dispCount,       \* number of dispose calls made so far
    dispState,       \* per dispose call: uncalled/polling/resolved
    dispKill,        \* the killQueue argument of the dispose call that disposed
    dispPending,     \* history: the actions pending when the processor was disposed
    dispInFlight     \* history: the actions executing when the processor was disposed

bpVars == <<bpInterval, bpBreakOnly, bpQueue, bpExecuting, bpDisposed, bpTimers,
            bpTimerDelay, bpCount, paResult, submitOrder, startOrder, aPhase, aGiven,
            aHandler, aCallback, aError, aHandlerLog, aCallbackRuns,
            dispCount, dispState, dispKill, dispPending, dispInFlight>>

VARIABLES
    \* ---- synchronize (one decorated method of one instance; it locks the Mutex above)
    sDelay,          \* whether a delay Duration was configured
    sPc,             \* per caller: idle / waiting / body / delay
    sResult,         \* per caller: how the body of its last call ended (none/ok/error)
    sBodyOrder,      \* history: calls (by their Deferred) in the order their body started
    sBodyEnds        \* history: calls (by their Deferred) whose body has finished

syncVars == <<sDelay, sPc, sResult, sBodyOrder, sBodyEnds>>

VARIABLES
    \* ---- dedupe (one decorated method of one instance)
    ddDelay,         \* whether a window Duration was configured
    ddActive,        \* this[activeKey]
    ddCount,         \* number of calls of the replacement method so far
    ddState,         \* per call: uncalled/body/window/dropped/returned/threw
    ddOutcome,       \* per call: how its body ended (none/ok/error)
    ddExecs          \* history: number of times the method body was invoked

dedupeVars == <<ddDelay, ddActive, ddCount, ddState, ddOutcome, ddExecs>>

VARIABLES
    \* ---- debounce (one decorated method of one instance)
    dbDelay,         \* whether a delay Duration was configured
    dbActive,        \* this[activeKey]
    dbSlot,          \* this[scheduledCallKey]: the call whose arguments the thunk holds
    dbCount,         \* number of calls of the replacement method so far
    dbState,         \* per call: uncalled/absorbed/delay/body/returned/threw
    dbTimer,         \* per call: ticks left of the delay it awaits
    dbSinceCall,     \* ticks since the most recent call (counted up to DelayTicks)
    dbExecs          \* history: the executions of the method body, in order

debounceVars == <<dbDelay, dbActive, dbSlot, dbCount, dbState, dbTimer, dbSinceCall,
                  dbExecs>>

VARIABLES
    \* ---- throttle (one decorated method of one instance)
    thDelay,         \* whether the decorator was given a Duration
    thActive,        \* this[activeKey]
    thSlot,          \* this[scheduledCallKey]: the call whose arguments the thunk holds
    thCount,         \* number of calls of the replacement method so far
    thState,         \* per call: uncalled/absorbed/body/delay/returned/threw
    thOutcome,       \* per call: how the body it last awaited ended (none/ok/error)
    thTimer,         \* per call: ticks left of the delay it awaits
    thSinceEnd,      \* ticks since the last execution finished (counted up to DelayTicks)
    thExecs          \* history: the executions of the method body, in order

throttleVars == <<thDelay, thActive, thSlot, thCount, thState, thOutcome, thTimer,
                  thSinceEnd, thExecs>>

VARIABLES
    \* ---- Make.loopAsync (one call) and its TaskManager
    laN,             \* TaskManager._numberOfTimes
    laP,             \* the degreesOfParallelism given (Null: not given)
    laTasks,         \* TaskManager._tasks: per Task its _promise (null/pending/
                     \* resolved/rejected) and the item it was last executed for
    laIndex,         \* the loop variable i of TaskManager.execute
    laPc,            \* where execute() is: loop/racing/finishing/resolved/rejected
    laWinner,        \* the Task whose promise settled the pending Promise.race
    laInvoked,       \* history: the indexes the function was invoked with, in order
    laDone           \* history: the indexes whose invocation has completed

loopVars == <<laN, laP, laTasks, laIndex, laPc, laWinner, laInvoked, laDone>>

vars == <<inUse, deferredVars, mutexVars, bpVars, syncVars, dedupeVars, debounceVars,
          throttleVars, loopVars>>

\* What each component's steps leave alone.
notDeferred == <<inUse, loopVars, mutexVars, bpVars, syncVars, dedupeVars, debounceVars, throttleVars>>
notBP == <<inUse, loopVars, deferredVars, mutexVars, syncVars, dedupeVars, debounceVars, throttleVars>>
notSync == <<inUse, loopVars, deferredVars, bpVars, dedupeVars, debounceVars, throttleVars>>
notDedupe == <<inUse, loopVars, deferredVars, mutexVars, bpVars, syncVars, debounceVars, throttleVars>>
notDebounce == <<inUse, loopVars, deferredVars, mutexVars, bpVars, syncVars, dedupeVars, throttleVars>>
notThrottle == <<inUse, loopVars, deferredVars, mutexVars, bpVars, syncVars, dedupeVars,
                 debounceVars>>
notLoop == <<inUse, deferredVars, mutexVars, bpVars, syncVars, dedupeVars, debounceVars,
             throttleVars>>

\* ---------------------------------------------------------------- helpers
\* Array.prototype.remove (n-ext): removes the first occurrence of value.
ArrayRemoveNothing(arr, x) == arr
RECURSIVE ArrayRemove(_, _)
ArrayRemove(arr, x) ==
    IF arr = <<>> THEN <<>>
    ELSE IF Head(arr) = x THEN Tail(arr)
    ELSE <<Head(arr)>> \o ArrayRemove(Tail(arr), x)

Occurrences(seq, x) == Cardinality({i \in 1..Len(seq) : seq[i] = x})
SeqToSet(s) == {s[i] : i \in 1..Len(s)}

\* The execution history with the outcome of the execution that call i awaits:
\* the last one it started.
SettleExec(execs, i, outcome) ==
    LET mine == {k \in 1..Len(execs) : execs[k].by = i}
    IN  IF mine = {} THEN execs
        ELSE LET last == CHOOSE k \in mine : \A k2 \in mine : k2 <= k
             IN  [execs EXCEPT ![last].outcome = outcome]

IsPrefix(s, t) ==
    /\ Len(s) <= Len(t)
    /\ \A i \in 1..Len(s) : s[i] = t[i]

\* ================================================================ Deferred
\* Deferred.resolve on a promise in state st: a promise settles once.
DeferredResolve(st) == IF st = "pending" THEN "resolved" ELSE st

\* The resolve and reject functions of a promise p: the first call settles it,
\* a call on a settled promise does nothing.
PromiseSettleLast(p, status, value) == [status |-> status, value |-> value]
PromiseSettle(p, status, value) ==
    IF p.status = "pending" THEN [status |-> status, value |-> value] ELSE p

\* Deferred.resolve(value): `this._resolve(value)`
DeferredResolveWith(value) ==
    /\ Len(dfCalls) < MaxDeferredCalls
    /\ dfPromise' = PromiseSettle(dfPromise, "fulfilled", value)
    /\ dfCalls' = Append(dfCalls, [op |-> "resolve", arg |-> value])
    /\ dfRaised' = dfRaised

\* Deferred.reject(reason): `this._reject(reason)`
DeferredReject(reason) ==
    /\ Len(dfCalls) < MaxDeferredCalls
    /\ dfPromise' = PromiseSettle(dfPromise, "rejected", reason)
    /\ dfCalls' = Append(dfCalls, [op |-> "reject", arg |-> reason])
    /\ dfRaised' = dfRaised

\* new Deferred(): the promise is created pending
DeferredInit ==
    /\ dfPromise = [status |-> "pending", value |-> "none"]
    /\ dfCalls = <<>>
    /\ dfRaised = FALSE

\* =================================================================== Mutex
\* lock(): `if (this._deferreds.length === 1)`
IsSoleEntryAlways(q) == TRUE
IsSoleEntry(q) == Len(q) = 1

\* release(): `this._deferreds[0] || null`
NextHolderLast(q) == IF Len(q) > 0 THEN q[Len(q)] ELSE Null
NextHolder(q) == IF Len(q) > 0 THEN q[1] ELSE Null

\* The Deferreds whose promise goes from pending to resolved between ds and ds2,
\* appended to the grant history.
Granted(ds, ds2, d) == IF ds[d] = "pending" /\ ds2[d] = "resolved" THEN <<d>> ELSE <<>>

\* Mutex.lock() called by caller c, which then awaits the returned promise.
MutexLock(c) ==
    /\ mCount < MaxLocks
    /\ LET d == mCount + 1
           q == Append(mDeferreds, d)
           born == [dState EXCEPT ![d] = "pending"]
       IN  /\ mCount' = d
           /\ mDeferreds' = q
           /\ lockOrder' = Append(lockOrder, d)
           /\ mDef' = [mDef EXCEPT ![c] = d]
           /\ IF IsSoleEntry(q)
              THEN /\ mCurrent' = d
                   /\ dState' = [born EXCEPT ![d] = DeferredResolve(born[d])]
                   /\ grantOrder' = grantOrder \o Granted(born, dState', d)
              ELSE /\ mCurrent' = mCurrent
                   /\ dState' = born
                   /\ grantOrder' = grantOrder

\* Mutex.release()
MutexRelease ==
    IF mCurrent = Null
    THEN UNCHANGED <<dState, mDeferreds, mCurrent, grantOrder>>
    ELSE LET q == ArrayRemove(mDeferreds, mCurrent)
             nxt == NextHolder(q)
         IN  /\ mDeferreds' = q
             /\ mCurrent' = nxt
             /\ IF nxt # Null
                THEN /\ dState' = [dState EXCEPT ![nxt] = DeferredResolve(dState[nxt])]
                     /\ grantOrder' = grantOrder \o Granted(dState, dState', nxt)
                ELSE UNCHANGED <<dState, grantOrder>>

\* A caller starts `await mutex.lock()`.
Lock(c) ==
    /\ mPc[c] = "idle"
    /\ MutexLock(c)
    /\ mPc' = [mPc EXCEPT ![c] = "waiting"]
    /\ mResult' = [mResult EXCEPT ![c] = "none"]

\* The continuation of `await mutex.lock()` runs once the promise is resolved.
Acquire(c) ==
    /\ mPc[c] \in {"waiting", "relocking"}
    /\ dState[mDef[c]] = "resolved"
    /\ mPc' = [mPc EXCEPT ![c] = "holding"]
    /\ UNCHANGED <<dState, mDeferreds, mCurrent, mCount, mDef, mResult, lockOrder,
                   grantOrder>>

\* `try { ... } finally { this._mutex.release(); }`: whether release() is called
\* when the section ends with outcome.
ReleasesOnSuccessOnly(outcome) == outcome = "ok"
ReleasesOn(outcome) == TRUE

\* The holder's critical section ends, normally or by throwing; then the caller
\* of the section gets that outcome.
Release(c) ==
    /\ mPc[c] = "holding"
    /\ \E outcome \in {"ok", "error"} :
           /\ IF ReleasesOn(outcome) THEN MutexRelease
              ELSE UNCHANGED <<dState, mDeferreds, mCurrent, grantOrder>>
           /\ mResult' = [mResult EXCEPT ![c] = outcome]
    /\ mPc' = [mPc EXCEPT ![c] = "idle"]
    /\ UNCHANGED <<mCount, mDef, lockOrder>>

\* The holder calls lock() again inside its critical section and awaits the
\* returned promise before it releases.
Relock(c) ==
    /\ mPc[c] = "holding"
    /\ MutexLock(c)
    /\ mPc' = [mPc EXCEPT ![c] = "relocking"]
    /\ UNCHANGED mResult

\* release() called by a caller that does not hold the lock.
StrayRelease(c) ==
    /\ mPc[c] # "holding"
    /\ MutexRelease
    /\ UNCHANGED <<mCount, mPc, mDef, mResult, lockOrder>>

MutexInit ==
    /\ dState = [d \in DeferredIds |-> "unborn"]
    /\ mDeferreds = <<>>
    /\ mCurrent = Null
    /\ mCount = 0
    /\ mPc = [c \in Callers |-> "idle"]
    /\ mDef = [c \in Callers |-> Null]
    /\ mResult = [c \in Callers |-> "none"]
    /\ lockOrder = <<>>
    /\ grantOrder = <<>>

\* ===================================================== BackgroundProcessor
DefaultBreakInterval == 1000

\* The processor's collections, timer and per-action records as one value, so
\* that the synchronous calls of a handler can be composed.
BPState ==
    [queue |-> bpQueue, executing |-> bpExecuting, timers |-> bpTimers,
     delay |-> bpTimerDelay, startOrder |-> startOrder, phase |-> aPhase,
     callback |-> aCallback, error |-> aError, hlog |-> aHandlerLog,
     cbRuns |-> aCallbackRuns]

SetBPState(st) ==
    /\ bpQueue' = st.queue
    /\ bpExecuting' = st.executing
    /\ bpTimers' = st.timers
    /\ bpTimerDelay' = st.delay
    /\ startOrder' = st.startOrder
    /\ aPhase' = st.phase
    /\ aCallback' = st.callback
    /\ aError' = st.error
    /\ aHandlerLog' = st.hlog
    /\ aCallbackRuns' = st.cbRuns

\* What a call of the action's callable does in the calling turn: it returns a
\* promise or throws err; and, when the error handler is then called in the
\* same turn, whether that returns a promise or throws.
SyncBehaviours(errs) ==
    {[act |-> "promise", err |-> "none", handler |-> "na"]}
    \cup [act : {"throw"}, err : errs, handler : {"promise", "throw"}]

\* processAction: `errorHandler || this._defaultErrorHandler`
BindHandlerDefaultOnly(given) == "default"
BindHandler(given) == IF given # "none" THEN given ELSE "default"

\* processAction: `if (this._isDisposed) throw new ObjectDisposedException(this)`
RejectsSubmissionNever(disposed) == FALSE
RejectsSubmission(disposed) == disposed

\* _initiateBackgroundProcessing: `if (this._isDisposed) return;`
LoopStoppedNever(disposed) == FALSE
LoopStopped(disposed) == disposed

\* _initiateBackgroundProcessing: the delay the timer is armed with
LoopTimeoutInterval(queue) == bpInterval
LoopTimeout(queue) ==
    IF bpBreakOnly /\ Len(queue) > 0 THEN 0 ELSE bpInterval

\* _initiateBackgroundProcessing()
InitiateBackgroundProcessing(st) ==
    IF LoopStopped(bpDisposed) THEN st
    ELSE [st EXCEPT !.timers = @ + 1, !.delay = LoopTimeout(st.queue)]

\* Array.prototype.shift on a non-empty array
ShiftLast(q) == [item |-> q[Len(q)], rest |-> SubSeq(q, 1, Len(q) - 1)]
Shift(q) == [item |-> Head(q), rest |-> Tail(q)]

\* The postExecuteCallback execute() was given for action a:
\*   the loop's:    remove from _actionsExecuting, _initiateBackgroundProcessing()
\*   dispose's:     remove from _actionsExecuting
PostExecuteCallbackKeeps(st, a) ==
    LET kept == [st EXCEPT !.phase[a] = "done", !.cbRuns[a] = @ + 1]
    IN  IF st.callback[a] = "loop" THEN InitiateBackgroundProcessing(kept)
        ELSE kept
PostExecuteCallback(st, a) ==
    LET removed == [st EXCEPT !.executing = ArrayRemove(st.executing, a),
                              !.phase[a] = "done",
                              !.cbRuns[a] = @ + 1]
    IN  IF st.callback[a] = "loop" THEN InitiateBackgroundProcessing(removed)
        ELSE removed

\* Action.execute: the catch block around the error handler call
\* (`console.error(error); postExecuteCallback();`)
HandlerThrewTwice(st, a) == PostExecuteCallback(PostExecuteCallback(st, a), a)
HandlerThrewNoCallback(st, a) == [st EXCEPT !.phase[a] = "done"]
HandlerThrew(st, a) == PostExecuteCallback(st, a)

\* Action.execute: `this._errorHandler(error)` and what is chained on its result
InvokeErrorHandler(st, a, err, handlerDoes) ==
    LET called == [st EXCEPT !.hlog[a] = Append(@, <<aHandler[a], err>>)]
    IN  IF handlerDoes = "throw" THEN HandlerThrew(called, a)
        ELSE [called EXCEPT !.phase[a] = "handling"]

\* Action.execute(postExecuteCallback): the part that runs in the calling turn
Execute(st, a, callback, beh) ==
    LET started == [st EXCEPT !.callback[a] = callback,
                              !.startOrder = Append(@, a),
                              !.phase[a] = "running"]
    IN  IF beh.act = "promise" THEN started
        ELSE InvokeErrorHandler([started EXCEPT !.error[a] = beh.err], a, beh.err,
                                beh.handler)

\* dispose: `while (this._actionsToProcess.length > 0) { shift; push; execute }`
RECURSIVE Drain(_, _)
Drain(st, behs) ==
    IF Len(st.queue) = 0 THEN st
    ELSE LET sh == Shift(st.queue)
             moved == [st EXCEPT !.queue = sh.rest,
                                 !.executing = Append(@, sh.item)]
         IN  Drain(Execute(moved, sh.item, "drain", behs[sh.item]), behs)

\* dispose: `while (this._actionsExecuting.length > 0) await Delay.seconds(3);`
DrainFinishedAlways(executing) == TRUE
DrainFinished(executing) == Len(executing) = 0

\* processAction(action, errorHandler)
ProcessAction(given) ==
    /\ bpCount < MaxActions
    /\ LET a == bpCount + 1
       IN  /\ bpCount' = a
           /\ aGiven' = [aGiven EXCEPT ![a] = given]
           /\ IF RejectsSubmission(bpDisposed)
              THEN /\ paResult' = "ObjectDisposedException"
                   /\ aPhase' = [aPhase EXCEPT ![a] = "rejected"]
                   /\ UNCHANGED <<bpQueue, aHandler, submitOrder>>
              ELSE /\ paResult' = "ok"
                   /\ bpQueue' = Append(bpQueue, a)
                   /\ aHandler' = [aHandler EXCEPT ![a] = BindHandler(given)]
                   /\ aPhase' = [aPhase EXCEPT ![a] = "pending"]
                   /\ submitOrder' = Append(submitOrder, a)
    /\ UNCHANGED <<bpInterval, bpBreakOnly, bpExecuting, bpDisposed, bpTimers,
                   bpTimerDelay, startOrder, aCallback, aError, aHandlerLog,
                   aCallbackRuns, dispCount, dispState, dispKill, dispPending,
                   dispInFlight>>

\* The timer armed by _initiateBackgroundProcessing fires; a callable that throws
\* throws one of errs.
TimerFireWith(errs) ==
    /\ bpTimers > 0
    /\ LET fired == [BPState EXCEPT !.timers = @ - 1]
       IN  IF Len(bpQueue) > 0
           THEN \E beh \in SyncBehaviours(errs) :
                    LET sh == Shift(fired.queue)
                        moved == [fired EXCEPT !.queue = sh.rest,
                                               !.executing = Append(@, sh.item)]
                    IN  SetBPState(Execute(moved, sh.item, "loop", beh))
           ELSE SetBPState(InitiateBackgroundProcessing(fired))
    /\ UNCHANGED <<bpInterval, bpBreakOnly, bpDisposed, bpCount, paResult, submitOrder,
                   aGiven, aHandler, dispCount, dispState, dispKill, dispPending,
                   dispInFlight>>

TimerFire == TimerFireWith(Errors)

\* The promise returned by action a's callable settles: `.then` / `.catch`
ActionSettleWith(a, errs) ==
    /\ aPhase[a] = "running"
    /\ \/ SetBPState(PostExecuteCallback(BPState, a))
       \/ \E err \in errs, handlerDoes \in {"promise", "throw"} :
              SetBPState(InvokeErrorHandler([BPState EXCEPT !.error[a] = err], a, err,
                                            handlerDoes))
    /\ UNCHANGED <<bpInterval, bpBreakOnly, bpDisposed, bpCount, paResult, submitOrder,
                   aGiven, aHandler, dispCount, dispState, dispKill, dispPending,
                   dispInFlight>>

ActionSettle(a) == ActionSettleWith(a, Errors)

\* The promise returned by action a's error handler settles.
HandlerSettle(a) ==
    /\ aPhase[a] = "handling"
    /\ \E outcome \in {"resolved", "rejected"} :
           \* `.then(() => postExecuteCallback())` or
           \* `.catch((error) => { console.error(error); postExecuteCallback(); })`
           SetBPState(PostExecuteCallback(BPState, a))
    /\ UNCHANGED <<bpInterval, bpBreakOnly, bpDisposed, bpCount, paResult, submitOrder,
                   aGiven, aHandler, dispCount, dispState, dispKill, dispPending,
                   dispInFlight>>

\* dispose: `if (this._isDisposed) return;`
DisposeReturnsEarlyNever(disposed) == FALSE
DisposeReturnsEarly(disposed) == disposed

\* dispose(killQueue), up to its first suspension
DisposeWith(killQueue, errs) ==
    /\ dispCount < MaxDispose
    /\ LET k == dispCount + 1
       IN  /\ dispCount' = k
           /\ IF DisposeReturnsEarly(bpDisposed)
              THEN /\ dispState' = [dispState EXCEPT ![k] = "resolved"]
                   /\ UNCHANGED <<bpDisposed, dispKill, bpQueue, bpExecuting, bpTimers,
                                  bpTimerDelay, startOrder, aPhase, aCallback, aError,
                                  aHandlerLog, aCallbackRuns, dispPending,
                                  dispInFlight>>
              ELSE /\ bpDisposed' = TRUE
                   /\ dispKill' = killQueue
                   /\ dispPending' = SeqToSet(bpQueue)
                   /\ dispInFlight' = SeqToSet(bpExecuting)
                   /\ LET cleared == [BPState EXCEPT !.timers = IF @ > 0 THEN @ - 1 ELSE 0]
                      IN  IF killQueue THEN SetBPState(cleared)
                          ELSE \E behs \in [SeqToSet(bpQueue) -> SyncBehaviours(errs)] :
                                   SetBPState(Drain(cleared, behs))
                   /\ dispState' = [dispState EXCEPT ![k] =
                          IF DrainFinished(bpExecuting') THEN "resolved" ELSE "polling"]
    /\ UNCHANGED <<bpInterval, bpBreakOnly, bpCount, paResult, submitOrder, aGiven,
                   aHandler>>

Dispose(killQueue) == DisposeWith(killQueue, Errors)

\* A dispose call wakes from `await Delay.seconds(3)` and finds nothing executing.
DisposePoll(k) ==
    /\ dispState[k] = "polling"
    /\ DrainFinished(bpExecuting)
    /\ dispState' = [dispState EXCEPT ![k] = "resolved"]
    /\ UNCHANGED <<bpInterval, bpBreakOnly, bpQueue, bpExecuting, bpDisposed,
                   bpTimers, bpTimerDelay, bpCount, paResult, submitOrder,
                   startOrder, aPhase, aGiven, aHandler, aCallback, aError, aHandlerLog,
                   aCallbackRuns, dispCount, dispKill, dispPending,
                   dispInFlight>>

\* new BackgroundProcessor(defaultErrorHandler, interval, breakOnly)
BPInit(interval, breakOnly) ==
    /\ bpInterval = interval
    /\ bpBreakOnly = breakOnly
    /\ bpQueue = <<>>
    /\ bpExecuting = <<>>
    /\ bpDisposed = FALSE
    /\ bpTimers = 1
    /\ bpTimerDelay = interval
    /\ bpCount = 0
    /\ paResult = "none"
    /\ submitOrder = <<>>
    /\ startOrder = <<>>
    /\ aPhase = [a \in ActionIds |-> "unsubmitted"]
    /\ aGiven = [a \in ActionIds |-> "none"]
    /\ aHandler = [a \in ActionIds |-> "none"]
    /\ aCallback = [a \in ActionIds |-> "none"]
    /\ aError = [a \in ActionIds |-> "none"]
    /\ aHandlerLog = [a \in ActionIds |-> <<>>]
    /\ aCallbackRuns = [a \in ActionIds |-> 0]
    /\ dispCount = 0
    /\ dispState = [k \in DisposeIds |-> "uncalled"]
    /\ dispKill = FALSE
    /\ dispPending = {}
    /\ dispInFlight = {}

\* ============================================================= synchronize
\* The replacement method: `await mutex.lock()` on the instance's Mutex.
SyncCall(c) ==
    /\ sPc[c] = "idle"
    /\ MutexLock(c)
    /\ sPc' = [sPc EXCEPT ![c] = "waiting"]
    /\ sResult' = [sResult EXCEPT ![c] = "none"]
    /\ UNCHANGED <<mPc, mResult, sDelay, sBodyOrder, sBodyEnds>>

\* The lock is acquired: the method body starts.
SyncEnter(c) ==
    /\ sPc[c] = "waiting"
    /\ dState[mDef[c]] = "resolved"
    /\ sPc' = [sPc EXCEPT ![c] = "body"]
    /\ sBodyOrder' = Append(sBodyOrder, mDef[c])
    /\ UNCHANGED <<mutexVars, sDelay, sResult, sBodyEnds>>

\* The method body ends (returns or fails); without a delay the lock is released
\* and the caller gets the body's outcome.
SyncBodyEnd(c) ==
    /\ sPc[c] = "body"
    /\ sBodyEnds' = sBodyEnds \cup {mDef[c]}
    /\ \E outcome \in {"ok", "error"} : sResult' = [sResult EXCEPT ![c] = outcome]
    /\ IF sDelay
       THEN /\ sPc' = [sPc EXCEPT ![c] = "delay"]
            /\ UNCHANGED mutexVars
       ELSE /\ sPc' = [sPc EXCEPT ![c] = "idle"]
            /\ MutexRelease
            /\ UNCHANGED <<mCount, mPc, mDef, mResult, lockOrder>>
    /\ UNCHANGED <<sDelay, sBodyOrder>>

\* The configured delay has passed: the lock is released.
SyncDelayEnd(c) ==
    /\ sPc[c] = "delay"
    /\ sPc' = [sPc EXCEPT ![c] = "idle"]
    /\ MutexRelease
    /\ UNCHANGED <<mCount, mPc, mDef, mResult, lockOrder, sDelay, sResult, sBodyOrder,
                   sBodyEnds>>

SyncInit(delay) ==
    /\ sDelay = delay
    /\ sPc = [c \in Callers |-> "idle"]
    /\ sResult = [c \in Callers |-> "none"]
    /\ sBodyOrder = <<>>
    /\ sBodyEnds = {}

\* ================================================================== dedupe
\* `if (this[activeKey]) return;`
IsBusyNever(active) == FALSE
IsBusy(active) == active

\* `finally { if (delay != null) await Delay.milliseconds(...); ... }`: whether
\* the window is waited for after a body that ended with `outcome`.
DedupeWaitsOnSuccessOnly(delay, outcome) == delay /\ outcome = "ok"
DedupeWaits(delay, outcome) == delay

\* The `finally` block once the method body has ended with `outcome`.
DedupeFinally(i, outcome) ==
    IF DedupeWaits(ddDelay, outcome)
    THEN /\ ddState' = [ddState EXCEPT ![i] = "window"]
         /\ ddActive' = ddActive
    ELSE /\ ddState' = [ddState EXCEPT ![i] = IF outcome = "ok" THEN "returned" ELSE "threw"]
         /\ ddActive' = FALSE

\* A call of the replacement method, up to its first suspension.
DedupeCall(bodyDoes) ==
    /\ ddCount < MaxDedupeCalls
    /\ LET i == ddCount + 1
       IN  /\ ddCount' = i
           /\ IF IsBusy(ddActive)
              THEN /\ ddState' = [ddState EXCEPT ![i] = "dropped"]
                   /\ UNCHANGED <<ddActive, ddOutcome, ddExecs>>
              ELSE /\ ddExecs' = ddExecs + 1
                   /\ IF bodyDoes = "promise"
                      THEN /\ ddActive' = TRUE
                           /\ ddState' = [ddState EXCEPT ![i] = "body"]
                           /\ UNCHANGED ddOutcome
                      ELSE \* target.call threw in the calling turn
                           /\ ddOutcome' = [ddOutcome EXCEPT ![i] = "error"]
                           /\ IF DedupeWaits(ddDelay, "error")
                              THEN /\ ddState' = [ddState EXCEPT ![i] = "window"]
                                   /\ ddActive' = TRUE
                              ELSE /\ ddState' = [ddState EXCEPT ![i] = "threw"]
                                   /\ ddActive' = FALSE
    /\ UNCHANGED ddDelay

\* The promise returned by the method body settles.
DedupeBodySettle(i, outcome) ==
    /\ ddState[i] = "body"
    /\ ddOutcome' = [ddOutcome EXCEPT ![i] = outcome]
    /\ DedupeFinally(i, outcome)
    /\ UNCHANGED <<ddDelay, ddCount, ddExecs>>

\* `await Delay.milliseconds(delay.toMilliSeconds())` is over.
DedupeWindowEnd(i) ==
    /\ ddState[i] = "window"
    /\ ddActive' = FALSE
    /\ ddState' = [ddState EXCEPT ![i] = IF ddOutcome[i] = "ok" THEN "returned" ELSE "threw"]
    /\ UNCHANGED <<ddDelay, ddCount, ddOutcome, ddExecs>>

\* The decorator's initializer: `this[activeKey] = false`
DedupeInit(delay) ==
    /\ ddDelay = delay
    /\ ddActive = FALSE
    /\ ddCount = 0
    /\ ddState = [i \in DedupeCalls |-> "uncalled"]
    /\ ddOutcome = [i \in DedupeCalls |-> "none"]
    /\ ddExecs = 0

\* ================================================================ debounce
\* The instance's debounce state and the per-call records as one value, so that
\* the synchronous steps of the replacement method can be composed.
DBState ==
    [active |-> dbActive, slot |-> dbSlot, count |-> dbCount, state |-> dbState,
     timer |-> dbTimer, sinceCall |-> dbSinceCall, execs |-> dbExecs]

SetDBState(st) ==
    /\ dbActive' = st.active
    /\ dbSlot' = st.slot
    /\ dbCount' = st.count
    /\ dbState' = st.state
    /\ dbTimer' = st.timer
    /\ dbSinceCall' = st.sinceCall
    /\ dbExecs' = st.execs

\* `this[scheduledCallKey] = async () => { await target.call(this, ...args); }`
\* by call i: the slot holds the thunk of that call.
DebounceScheduleKeepOldest(slot, i) == IF slot # Null THEN slot ELSE i
DebounceSchedule(slot, i) == i

\* `if (this[activeKey]) return;` and the `!this[activeKey]` of the loop condition
DebounceIsActiveNever(active) == FALSE
DebounceIsActive(active) == active

\* `const currentCall = this[scheduledCallKey]; this[scheduledCallKey] = null;
\*  try { await currentCall(); }` in call i: the thunk taken from the slot starts
\* the method body; with an empty slot the call of null throws inside the try.
DebounceTake(st, i) ==
    IF st.slot = Null
    THEN [st EXCEPT !.active = FALSE, !.state[i] = "threw"]
    ELSE [st EXCEPT !.slot = Null,
                    !.state[i] = "body",
                    !.execs = Append(@, [args |-> st.slot, by |-> i, calls |-> st.count,
                                         sinceCall |-> st.sinceCall,
                                         outcome |-> "running"])]

\* The while loop of call i from its condition to its next suspension.
DebounceLoop(st, i) ==
    IF st.slot # Null /\ ~DebounceIsActive(st.active)
    THEN LET marked == [st EXCEPT !.active = TRUE]
         IN  IF dbDelay
             THEN [marked EXCEPT !.state[i] = "delay", !.timer[i] = DelayTicks]
             ELSE DebounceTake(marked, i)
    ELSE [st EXCEPT !.state[i] = "returned"]

\* A call of the replacement method, up to its first suspension.
DebounceCall ==
    /\ dbCount < MaxDebounceCalls
    /\ LET i == dbCount + 1
           called == [DBState EXCEPT !.count = i,
                                     !.sinceCall = 0,
                                     !.slot = DebounceSchedule(@, i)]
       IN  IF DebounceIsActive(called.active)
           THEN SetDBState([called EXCEPT !.state[i] = "absorbed"])
           ELSE SetDBState(DebounceLoop(called, i))
    /\ UNCHANGED dbDelay

\* `await Delay.milliseconds(delay.toMilliSeconds())` of call i is over.
DebounceDelayEnd(i) ==
    /\ dbState[i] = "delay"
    /\ dbTimer[i] = 0
    /\ SetDBState(DebounceTake(DBState, i))
    /\ UNCHANGED dbDelay

\* `try { await currentCall(); } finally { ... }`: whether the outcome of the
\* awaited execution leaves the replacement method as an error.
DebounceRethrowsNever(outcome) == FALSE
DebounceRethrows(outcome) == outcome = "error"

\* The method body started by call i ends: `finally { this[activeKey] = false; }`,
\* then the error leaves the method or the loop condition is evaluated again.
DebounceBodySettle(i, outcome) ==
    /\ dbState[i] = "body"
    /\ LET idle == [DBState EXCEPT !.active = FALSE,
                                   !.execs = SettleExec(@, i, outcome)]
       IN  IF DebounceRethrows(outcome)
           THEN SetDBState([idle EXCEPT !.state[i] = "threw"])
           ELSE SetDBState(DebounceLoop(idle, i))
    /\ UNCHANGED dbDelay

\* One tick of the clock: running delays get shorter, the last call gets older.
DebounceTick ==
    /\ dbTimer' = [i \in DebounceCalls |-> IF dbTimer[i] > 0 THEN dbTimer[i] - 1 ELSE 0]
    /\ dbSinceCall' = IF dbSinceCall < DelayTicks THEN dbSinceCall + 1 ELSE dbSinceCall
    /\ UNCHANGED <<dbDelay, dbActive, dbSlot, dbCount, dbState, dbExecs>>

\* The decorated instance as constructed: neither key is set.
DebounceInit(delay) ==
    /\ dbDelay = delay
    /\ dbActive = FALSE
    /\ dbSlot = Null
    /\ dbCount = 0
    /\ dbState = [i \in DebounceCalls |-> "uncalled"]
    /\ dbTimer = [i \in DebounceCalls |-> 0]
    /\ dbSinceCall = DelayTicks
    /\ dbExecs = <<>>

\* ================================================================ throttle
THState ==
    [active |-> thActive, slot |-> thSlot, count |-> thCount, state |-> thState,
     outcome |-> thOutcome, timer |-> thTimer, sinceEnd |-> thSinceEnd,
     execs |-> thExecs]

SetTHState(st) ==
    /\ thActive' = st.active
    /\ thSlot' = st.slot
    /\ thCount' = st.count
    /\ thState' = st.state
    /\ thOutcome' = st.outcome
    /\ thTimer' = st.timer
    /\ thSinceEnd' = st.sinceEnd
    /\ thExecs' = st.execs

\* `if (this[activeKey]) return;` and the `!this[activeKey]` of the loop condition
ThrottleIsActiveNever(active) == FALSE
ThrottleIsActive(active) == active

\* `finally { yield delay_1.Delay.milliseconds(delayMs); ... }`: whether the
\* finally block waits before it clears the active flag.
ThrottleWaitsNever(delay) == FALSE
ThrottleWaits(delay) == delay

\* The while loop of call i from its condition to its next suspension:
\* `this[activeKey] = true; const currentCall = this[scheduledCallKey];
\*  this[scheduledCallKey] = null; try { yield currentCall(); }`
ThrottleLoop(st, i) ==
    IF st.slot # Null /\ ~ThrottleIsActive(st.active)
    THEN [st EXCEPT !.active = TRUE,
                    !.slot = Null,
                    !.state[i] = "body",
                    !.execs = Append(@, [args |-> st.slot, by |-> i,
                                         sinceEnd |-> st.sinceEnd,
                                         outcome |-> "running",
                                         running |-> {j \in ThrottleCalls \ {i} :
                                                         st.state[j] = "body"}])]
    ELSE [st EXCEPT !.state[i] = "returned"]

\* The end of the finally block of call i: `this[activeKey] = false;`, then the
\* error leaves the method or the loop condition is evaluated again.
ThrottleFinallyEnd(st, i) ==
    LET idle == [st EXCEPT !.active = FALSE]
    IN  IF st.outcome[i] = "error" THEN [idle EXCEPT !.state[i] = "threw"]
        ELSE ThrottleLoop(idle, i)

\* A call of the replacement method, up to its first suspension.
ThrottleCall ==
    /\ thCount < MaxThrottleCalls
    /\ LET i == thCount + 1
           called == [THState EXCEPT !.count = i, !.slot = i]
       IN  IF ThrottleIsActive(called.active)
           THEN SetTHState([called EXCEPT !.state[i] = "absorbed"])
           ELSE SetTHState(ThrottleLoop(called, i))
    /\ UNCHANGED thDelay

\* The method body started by call i ends: the finally block starts.
ThrottleBodySettle(i, outcome) ==
    /\ thState[i] = "body"
    /\ LET ended == [THState EXCEPT !.outcome[i] = outcome,
                                    !.sinceEnd = 0,
                                    !.execs = SettleExec(@, i, outcome)]
       IN  IF ThrottleWaits(thDelay)
           THEN SetTHState([ended EXCEPT !.state[i] = "delay", !.timer[i] = DelayTicks])
           ELSE SetTHState(ThrottleFinallyEnd(ended, i))
    /\ UNCHANGED thDelay

\* `yield delay_1.Delay.milliseconds(delayMs)` of call i is over.
ThrottleDelayEnd(i) ==
    /\ thState[i] = "delay"
    /\ thTimer[i] = 0
    /\ SetTHState(ThrottleFinallyEnd(THState, i))
    /\ UNCHANGED thDelay

\* One tick of the clock: running delays get shorter, the last execution gets older.
ThrottleTick ==
    /\ thTimer' = [i \in ThrottleCalls |-> IF thTimer[i] > 0 THEN thTimer[i] - 1 ELSE 0]
    /\ thSinceEnd' = IF thSinceEnd < DelayTicks THEN thSinceEnd + 1 ELSE thSinceEnd
    /\ UNCHANGED <<thDelay, thActive, thSlot, thCount, thState, thOutcome, thExecs>>

\* The decorated instance as constructed: neither key is set.
ThrottleInit(delay) ==
    /\ thDelay = delay
    /\ thActive = FALSE
    /\ thSlot = Null
    /\ thCount = 0
    /\ thState = [i \in ThrottleCalls |-> "uncalled"]
    /\ thOutcome = [i \in ThrottleCalls |-> "none"]
    /\ thTimer = [i \in ThrottleCalls |-> 0]
    /\ thSinceEnd = DelayTicks
    /\ thExecs = <<>>

\* ========================================================== Make.loopAsync
\* TaskManager constructor:
\*   `this._taskCount = !taskCount || taskCount <= 0 ? numberOfTimes : taskCount`
TaskCountAll(numberOfTimes, taskCount) == numberOfTimes
TaskCount(numberOfTimes, taskCount) ==
    IF taskCount = Null \/ taskCount <= 0 THEN numberOfTimes ELSE taskCount

\* Task.isFree: `this._promise == null`
IsFree(task) == task.promise = "null"

\* `this._tasks.find(t => t.isFree)`: the first free Task, if any
FindFree(tasks) ==
    IF \E t \in 1..Len(tasks) : IsFree(tasks[t])
    THEN CHOOSE t \in 1..Len(tasks) :
             IsFree(tasks[t]) /\ \A u \in 1..(t - 1) : ~IsFree(tasks[u])
    ELSE Null

\* `Promise.race(this._tasks.map(t => t.promise))` at the time it is called: the
\* first promise of the array that is already settled wins, if there is one.
RaceWinner(tasks) ==
    IF \E t \in 1..Len(tasks) : tasks[t].promise \in {"resolved", "rejected"}
    THEN CHOOSE t \in 1..Len(tasks) :
             /\ tasks[t].promise \in {"resolved", "rejected"}
             /\ \A u \in 1..(t - 1) : tasks[u].promise = "pending"
    ELSE Null

\* Task.execute(itemIndex): the function is invoked inside the executor of a new
\* promise, which is rejected at once when the function throws.
TaskExecute(tasks, t, itemIndex, funcDoes) ==
    [tasks EXCEPT ![t] = [promise |-> IF funcDoes = "throw" THEN "rejected" ELSE "pending",
                          item |-> itemIndex]]

\* Task.free(): `this._promise = null`
TaskFree(tasks, t) == [tasks EXCEPT ![t].promise = "null"]

\* One iteration of the loop of TaskManager.execute, up to its suspension:
\* _executeTaskForItem(i) uses a free Task or starts waiting for the race.
ExecuteTaskForItem ==
    /\ laPc = "loop"
    /\ laIndex < laN
    /\ LET availableTask == FindFree(laTasks)
       IN  IF availableTask # Null
           THEN /\ \E funcDoes \in {"promise", "throw"} :
                       laTasks' = TaskExecute(laTasks, availableTask, laIndex, funcDoes)
                /\ laInvoked' = Append(laInvoked, laIndex)
                /\ laIndex' = laIndex + 1
                /\ UNCHANGED <<laPc, laWinner>>
           ELSE /\ laPc' = "racing"
                /\ laWinner' = RaceWinner(laTasks)
                /\ UNCHANGED <<laTasks, laInvoked, laIndex>>
    /\ UNCHANGED <<laN, laP, laDone>>

\* The promise returned by the function invoked by Task t settles.
TaskSettle(t, outcome) ==
    /\ t \in 1..Len(laTasks)
    /\ laTasks[t].promise = "pending"
    /\ laTasks' = [laTasks EXCEPT ![t].promise =
                       IF outcome = "ok" THEN "resolved" ELSE "rejected"]
    /\ laDone' = IF outcome = "ok" THEN laDone \cup {laTasks[t].item} ELSE laDone
    /\ laWinner' = IF laPc = "racing" /\ laWinner = Null THEN t ELSE laWinner
    /\ UNCHANGED <<laN, laP, laIndex, laPc, laInvoked>>

\* The continuation of `await Promise.race(...)`: the winner is freed and runs the
\* item, or its rejection leaves execute().
RaceResume ==
    /\ laPc = "racing"
    /\ laWinner # Null
    /\ IF laTasks[laWinner].promise = "rejected"
       THEN /\ laPc' = "rejected"
            /\ UNCHANGED <<laTasks, laInvoked, laIndex>>
       ELSE /\ \E funcDoes \in {"promise", "throw"} :
                   laTasks' = TaskExecute(TaskFree(laTasks, laWinner), laWinner, laIndex,
                                          funcDoes)
            /\ laInvoked' = Append(laInvoked, laIndex)
            /\ laIndex' = laIndex + 1
            /\ laPc' = "loop"
    /\ laWinner' = Null
    /\ UNCHANGED <<laN, laP, laDone>>

\* The loop is over: `await this._finish()` starts waiting.
Finish ==
    /\ laPc = "loop"
    /\ laIndex = laN
    /\ laPc' = "finishing"
    /\ UNCHANGED <<laN, laP, laTasks, laIndex, laWinner, laInvoked, laDone>>

\* The Promise.all of _finish over the Tasks that are not free settles: rejected
\* as soon as one of them is, resolved when all of them are.
FinishResume ==
    /\ laPc = "finishing"
    /\ LET busy == {t \in 1..Len(laTasks) : ~IsFree(laTasks[t])}
       IN  \/ /\ \E t \in busy : laTasks[t].promise = "rejected"
              /\ laPc' = "rejected"
           \/ /\ \A t \in busy : laTasks[t].promise = "resolved"
              /\ laPc' = "resolved"
    /\ UNCHANGED <<laN, laP, laTasks, laIndex, laWinner, laInvoked, laDone>>

\* Make.loopAsync(asyncFunc, numberOfTimes, degreesOfParallelism):
\* `new TaskManager(numberOfTimes, asyncFunc, degreesOfParallelism ?? null, false)`
TaskManagerInit(numberOfTimes, degreesOfParallelism) ==
    /\ laN = numberOfTimes
    /\ laP = degreesOfParallelism
    /\ laTasks = [t \in 1..TaskCount(numberOfTimes, degreesOfParallelism) |->
                      [promise |-> "null", item |-> -1]]
    /\ laIndex = 0
    /\ laPc = "loop"
    /\ laWinner = Null
    /\ laInvoked = <<>>
    /\ laDone = {}

\* ========================================================== specifications
\* Every component as constructed, with the configuration given for each.
ConstructedWith(interval, breakOnly, syncDelay, dedupeDelay, debounceDelay, throttleDelay, numberOfTimes, degreesOfParallelism) ==
    /\ TaskManagerInit(numberOfTimes, degreesOfParallelism)
    /\ DeferredInit
    /\ MutexInit
    /\ BPInit(interval, breakOnly)
    /\ SyncInit(syncDelay)
    /\ DedupeInit(dedupeDelay)
    /\ DebounceInit(debounceDelay)
    /\ ThrottleInit(throttleDelay)

Constructed(interval, breakOnly, syncDelay, dedupeDelay, debounceDelay, throttleDelay) ==
    ConstructedWith(interval, breakOnly, syncDelay, dedupeDelay, debounceDelay,
                    throttleDelay, 1, Null)

\* One Mutex used by NumCallers callers; the other components stay as constructed.
Init ==
    /\ inUse = "mutex"
    /\ Constructed(DefaultBreakInterval, TRUE, FALSE, FALSE, FALSE, FALSE)

\* One Deferred.
InitDeferred ==
    /\ inUse = "deferred"
    /\ Constructed(DefaultBreakInterval, TRUE, FALSE, FALSE, FALSE, FALSE)

\* One BackgroundProcessor, constructed with any configuration.
InitBP ==
    /\ inUse = "processor"
    /\ \E interval \in {0, DefaultBreakInterval}, breakOnly \in BOOLEAN :
           Constructed(interval, breakOnly, FALSE, FALSE, FALSE, FALSE)

\* One BackgroundProcessor with the default interval, with or without idle-only
\* breaks (the interval decides only how long a timer takes to fire).
InitBPLive ==
    /\ inUse = "processor"
    /\ \E breakOnly \in BOOLEAN :
           Constructed(DefaultBreakInterval, breakOnly, FALSE, FALSE, FALSE, FALSE)

\* One synchronize-wrapped method, decorated with or without a delay.
InitSync ==
    /\ inUse = "synchronize"
    /\ \E delay \in BOOLEAN :
           Constructed(DefaultBreakInterval, TRUE, delay, FALSE, FALSE, FALSE)

\* One dedupe-wrapped method, decorated with or without a window.
InitDedupe ==
    /\ inUse = "dedupe"
    /\ \E delay \in BOOLEAN :
           Constructed(DefaultBreakInterval, TRUE, FALSE, delay, FALSE, FALSE)

\* One debounce-wrapped method, decorated with or without a delay.
InitDebounce ==
    /\ inUse = "debounce"
    /\ \E delay \in BOOLEAN :
           Constructed(DefaultBreakInterval, TRUE, FALSE, FALSE, delay, FALSE)

\* One throttle-wrapped method, decorated with or without a delay.
InitThrottle ==
    /\ inUse = "throttle"
    /\ \E delay \in BOOLEAN :
           Constructed(DefaultBreakInterval, TRUE, FALSE, FALSE, FALSE, delay)

\* One call of Make.loopAsync, with or without a degree of parallelism.
InitLoop ==
    /\ inUse = "loopAsync"
    /\ \E numberOfTimes \in 1..MaxTimes, degreesOfParallelism \in 0..MaxParallel :
           ConstructedWith(DefaultBreakInterval, TRUE, FALSE, FALSE, FALSE, FALSE,
                           numberOfTimes, degreesOfParallelism)

\* One method wrapped by any one of the four decorators, with or without a delay.
InitDecorators ==
    \E use \in {"synchronize", "dedupe", "debounce", "throttle"}, delay \in BOOLEAN :
        /\ inUse = use
        /\ Constructed(DefaultBreakInterval, TRUE,
                       use = "synchronize" /\ delay, use = "dedupe" /\ delay,
                       use = "debounce" /\ delay, use = "throttle" /\ delay)

\* One lock-protected section: lock/try/finally-release on a Mutex, or a
\* synchronize-wrapped method with or without a delay.
InitLocked ==
    \E use \in {"mutex", "synchronize"}, delay \in BOOLEAN :
        /\ inUse = use
        /\ (use = "mutex" => ~delay)
        /\ Constructed(DefaultBreakInterval, TRUE, delay, FALSE, FALSE, FALSE)

\* Disciplined use: release() only by the holder, once.
MutexNext ==
    /\ \E c \in Callers : Lock(c) \/ Acquire(c) \/ Release(c)
    /\ UNCHANGED <<syncVars, notSync>>

\* Disciplined use, except that a holder may ask for the lock it holds.
MutexReentrantNext ==
    /\ \E c \in Callers : Lock(c) \/ Acquire(c) \/ Release(c) \/ Relock(c)
    /\ UNCHANGED <<syncVars, notSync>>

\* Any use: release() may also be called by non-holders.
MutexFreeNext ==
    /\ \E c \in Callers : Lock(c) \/ Acquire(c) \/ Release(c) \/ StrayRelease(c)
    /\ UNCHANGED <<syncVars, notSync>>

BPStep ==
    \/ \E given \in {"none", "custom"} : ProcessAction(given)
    \/ TimerFire
    \/ \E a \in ActionIds : ActionSettle(a) \/ HandlerSettle(a)
    \/ \E killQueue \in BOOLEAN : Dispose(killQueue)
    \/ \E k \in DisposeIds : DisposePoll(k)

BPNext == BPStep /\ UNCHANGED notBP

\* The same operations with every action submitted without an errorHandler and
\* every failure carrying the same error: which handler is bound and which error
\* it is given decide nothing in execute() or in the loop.
BPLiveStep ==
    \/ ProcessAction("none")
    \/ TimerFireWith(LiveErrors)
    \/ \E a \in ActionIds : ActionSettleWith(a, LiveErrors) \/ HandlerSettle(a)
    \/ \E killQueue \in BOOLEAN : DisposeWith(killQueue, LiveErrors)
    \/ \E k \in DisposeIds : DisposePoll(k)

BPLiveNext == BPLiveStep /\ UNCHANGED notBP

SyncStep == \E c \in Callers : SyncCall(c) \/ SyncEnter(c) \/ SyncBodyEnd(c) \/ SyncDelayEnd(c)

SyncNext == SyncStep /\ UNCHANGED notSync

DedupeStep ==
    \/ \E bodyDoes \in {"promise", "throw"} : DedupeCall(bodyDoes)
    \/ \E i \in DedupeCalls, outcome \in {"ok", "error"} : DedupeBodySettle(i, outcome)
    \/ \E i \in DedupeCalls : DedupeWindowEnd(i)

DedupeNext == DedupeStep /\ UNCHANGED notDedupe

DeferredStep ==
    \/ \E value \in DeferredValues : DeferredResolveWith(value)
    \/ \E reason \in Errors : DeferredReject(reason)

DeferredNext == DeferredStep /\ UNCHANGED notDeferred

DebounceStep ==
    \/ DebounceCall
    \/ \E i \in DebounceCalls : DebounceDelayEnd(i)
    \/ \E i \in DebounceCalls, outcome \in {"ok", "error"} : DebounceBodySettle(i, outcome)
    \/ DebounceTick

DebounceNext == DebounceStep /\ UNCHANGED notDebounce

ThrottleStep ==
    \/ ThrottleCall
    \/ \E i \in ThrottleCalls, outcome \in {"ok", "error"} : ThrottleBodySettle(i, outcome)
    \/ \E i \in ThrottleCalls : ThrottleDelayEnd(i)
    \/ ThrottleTick

ThrottleNext == ThrottleStep /\ UNCHANGED notThrottle

LoopStep ==
    \/ ExecuteTaskForItem
    \/ \E t \in 1..MaxTimes + MaxParallel, outcome \in {"ok", "error"} : TaskSettle(t, outcome)
    \/ RaceResume
    \/ Finish
    \/ FinishResume

LoopNext == LoopStep /\ UNCHANGED notLoop

\* The steps of the decorator the method is wrapped by.
DecoratorsNext ==
    \/ inUse = "synchronize" /\ SyncNext
    \/ inUse = "dedupe" /\ DedupeNext
    \/ inUse = "debounce" /\ DebounceNext
    \/ inUse = "throttle" /\ ThrottleNext

\* The steps of the lock-protected section in use.
LockedNext ==
    \/ inUse = "mutex" /\ MutexNext
    \/ inUse = "synchronize" /\ SyncNext

Spec == Init /\ [][MutexNext]_vars
SpecMutexReentrant == Init /\ [][MutexReentrantNext]_vars
SpecMutexFree == Init /\ [][MutexFreeNext]_vars
\* Every handler and error input on a processor with the default interval; every
\* configuration with the inputs that decide nothing in the loop left out.
SpecBP == InitBPLive /\ [][BPNext]_vars
SpecBPConfig == InitBP /\ [][BPLiveNext]_vars
SpecLoop == InitLoop /\ [][LoopNext]_vars
SpecDedupe == InitDedupe /\ [][DedupeNext]_vars
SpecDeferred == InitDeferred /\ [][DeferredNext]_vars
SpecDebounce == InitDebounce /\ [][DebounceNext]_vars
SpecThrottle == InitThrottle /\ [][ThrottleNext]_vars
SpecDecorators == InitDecorators /\ [][DecoratorsNext]_vars

\* Timers fire and the promises of started callables and handlers settle.
BPFairness ==
    /\ WF_vars(TimerFireWith(LiveErrors) /\ UNCHANGED notBP)
    /\ \A a \in ActionIds :
           WF_vars((ActionSettleWith(a, LiveErrors) \/ HandlerSettle(a)) /\ UNCHANGED notBP)

FairSpecBP == InitBPLive /\ [][BPLiveNext]_vars /\ BPFairness

\* Continuations of resolved promises run, method bodies end and delays pass;
\* nothing obliges anyone to call the method.
SyncFairness ==
    \A c \in Callers :
        WF_vars((SyncEnter(c) \/ SyncBodyEnd(c) \/ SyncDelayEnd(c)) /\ UNCHANGED notSync)

FairSpecSync == InitSync /\ [][SyncNext]_vars /\ SyncFairness

\* Continuations of resolved promises run and critical sections end.
MutexFairness ==
    \A c \in Callers :
        WF_vars((Acquire(c) \/ Release(c)) /\ UNCHANGED <<syncVars, notSync>>)

FairSpecMutex == Init /\ [][MutexNext]_vars /\ MutexFairness
FairSpecLocked == InitLocked /\ [][LockedNext]_vars /\ MutexFairness /\ SyncFairness

\* Method bodies end and windows pass; nothing obliges anyone to call the method.
DedupeFairness ==
    \A i \in DedupeCalls :
        WF_vars(((\E outcome \in {"ok", "error"} : DedupeBodySettle(i, outcome))
                    \/ DedupeWindowEnd(i))
                /\ UNCHANGED notDedupe)

FairSpecDedupe == InitDedupe /\ [][DedupeNext]_vars /\ DedupeFairness

\* The clock ticks, delays that are over end and method bodies end; nothing
\* obliges anyone to call the method.
DebounceFairness ==
    /\ WF_vars(DebounceTick /\ UNCHANGED notDebounce)
    /\ \A i \in DebounceCalls :
           WF_vars((DebounceDelayEnd(i) \/ \E outcome \in {"ok", "error"} :
                                              DebounceBodySettle(i, outcome))
                   /\ UNCHANGED notDebounce)

FairSpecDebounce == InitDebounce /\ [][DebounceNext]_vars /\ DebounceFairness

\* ------------------------------------------------------------------ claims
\* C1: Mutex is strictly FIFO: under disciplined use the lock() futures resolve
\* in exactly the order in which lock() was called.
C1_MutexFifo == IsPrefix(grantOrder, lockOrder)

\* C1 witness: three grants happened in order while a later caller is queued
\* behind the current holder.
C1_Witness ==
    /\ Len(grantOrder) >= 3
    /\ Len(mDeferreds) >= 2
    /\ \E c \in Callers : mPc[c] = "holding"

\* C2: at most one queued Deferred is resolved; every other queued entry is pending.
C2_NoDoubleGrant ==
    /\ Cardinality({i \in 1..Len(mDeferreds) : dState[mDeferreds[i]] = "resolved"}) <= 1
    /\ \A i \in 1..Len(mDeferreds) : dState[mDeferreds[i]] \in {"pending", "resolved"}
    /\ \A i \in 2..Len(mDeferreds) : dState[mDeferreds[i]] = "pending"

\* C2 witness: a release has handed the lock to a waiter that is granted while
\* another entry is still queued and pending.
C2_Witness ==
    /\ Len(mDeferreds) >= 2
    /\ Len(grantOrder) >= 2
    /\ dState[mDeferreds[1]] = "resolved"
    /\ dState[mDeferreds[2]] = "pending"

\* C3: before disposal the processor is a FIFO single consumer: actions are started
\* in submission order, an action is started only after the completion callback of
\* every action started before it has run, and at most one action is executing.
C3_FifoSingleConsumer ==
    ~bpDisposed =>
        /\ IsPrefix(startOrder, submitOrder)
        /\ \A i \in 1..(Len(startOrder) - 1) :
               aPhase[startOrder[i]] = "done" /\ aCallbackRuns[startOrder[i]] = 1
        /\ Len(bpExecuting) <= 1

\* C3 witness: the second submitted action is executing after the first completed,
\* with a third still pending.
C3_Witness ==
    /\ ~bpDisposed
    /\ Len(startOrder) = 2
    /\ Len(bpExecuting) = 1
    /\ Len(bpQueue) = 1

\* C4: dispose(false) starts every pending action, and the future of that dispose
\* call resolves only after those actions and the ones in flight have completed.
C4_DisposeDrains ==
    (bpDisposed /\ ~dispKill) =>
        /\ bpQueue = <<>>
        /\ dispPending \subseteq SeqToSet(startOrder)
        /\ dispState[1] = "resolved" =>
               \A a \in dispPending \cup dispInFlight : aPhase[a] = "done"

\* C4 witness: dispose(false) found two actions pending and one in flight, and its
\* future has resolved.
C4_Witness ==
    /\ bpDisposed /\ ~dispKill
    /\ Cardinality(dispPending) = 2
    /\ Cardinality(dispInFlight) = 1
    /\ dispState[1] = "resolved"

\* C5: after dispose(true) none of the actions pending at that moment is ever started.
C5_KillQueueStartsNothing ==
    (bpDisposed /\ dispKill) =>
        \A a \in dispPending : a \notin SeqToSet(startOrder) /\ aPhase[a] = "pending"

\* C5 witness: dispose(true) found two actions pending and one in flight; the one in
\* flight has since completed and run its completion callback.
C5_Witness ==
    /\ bpDisposed /\ dispKill
    /\ Cardinality(dispPending) = 2
    /\ \E a \in dispInFlight : aPhase[a] = "done"

\* C6: processAction on a disposed processor throws ObjectDisposedException,
\* leaves the pending queue and the executing set unchanged, and the submitted
\* action is never executed.
C6_RejectedWhenDisposed ==
    /\ [](\A a \in ActionIds :
              aPhase[a] = "rejected" =>
                  /\ a \notin SeqToSet(bpQueue) \cup SeqToSet(bpExecuting)
                  /\ a \notin SeqToSet(startOrder))
    /\ [][(bpDisposed /\ bpCount' # bpCount) =>
              /\ paResult' = "ObjectDisposedException"
              /\ aPhase'[bpCount'] = "rejected"
              /\ UNCHANGED <<bpQueue, bpExecuting>>]_vars
    /\ [][\A a \in ActionIds : aPhase[a] = "rejected" => aPhase'[a] = "rejected"]_vars

\* C6 witness: a submission was rejected while dispose was still waiting for an
\* action in flight.
C6_Witness ==
    /\ paResult = "ObjectDisposedException"
    /\ dispState[1] = "polling"
    /\ Len(bpExecuting) > 0
    /\ \E a \in ActionIds : aPhase[a] = "rejected"

\* C7: no failure stops the loop: on a processor that is not disposed every pending
\* action is eventually started (or the processor is disposed first), whatever
\* the actions started before it and their error handlers did; and processAction
\* reports nothing but acceptance or disposal to its caller.
C7_LoopSurvivesFailures ==
    /\ \A a \in ActionIds :
           (aPhase[a] = "pending" /\ ~bpDisposed) ~> (aPhase[a] # "pending" \/ bpDisposed)
    /\ [](paResult \in {"none", "ok", "ObjectDisposedException"})

\* C7 witness: an action failed and its error handler was called; that action is
\* done and a later action has been started by the loop of a live processor.
C7_Witness ==
    /\ ~bpDisposed
    /\ Len(startOrder) >= 2
    /\ aError[startOrder[1]] # "none"
    /\ aPhase[startOrder[1]] = "done"
    /\ aCallback[startOrder[2]] = "loop"

\* C8: a failed action's bound handler (the errorHandler given to processAction,
\* else the default handler) is invoked exactly once, with the action's error; no
\* handler is invoked for an action that has not failed.
C8_HandlerRouting ==
    \A a \in ActionIds :
        /\ aError[a] = "none" => aHandlerLog[a] = <<>>
        /\ aError[a] # "none" =>
               aHandlerLog[a] =
                   << <<(IF aGiven[a] = "custom" THEN "custom" ELSE "default"), aError[a]>> >>

\* C8 witness: one action with a custom handler and one without have both failed
\* and completed, and a third action succeeded.
C8_Witness ==
    /\ \E a, b, c \in ActionIds :
           /\ aPhase[a] = "done" /\ aGiven[a] = "custom" /\ aError[a] # "none"
           /\ aPhase[b] = "done" /\ aGiven[b] = "none" /\ aError[b] # "none"
           /\ aPhase[c] = "done" /\ aError[c] = "none"

\* C9: synchronize total ordering: every call's body eventually executes, the bodies
\* start in call order, and no two bodies' execution windows overlap.
C9_SynchronizeTotalOrder ==
    /\ [](IsPrefix(sBodyOrder, lockOrder))
    /\ [](Cardinality({c \in Callers : sPc[c] \in {"body", "delay"}}) <= 1)
    /\ [](\A i \in 1..(Len(sBodyOrder) - 1) : sBodyOrder[i] \in sBodyEnds)
    /\ \A d \in DeferredIds :
           (d \in SeqToSet(lockOrder)) ~> (d \in SeqToSet(sBodyOrder))

\* C9 witness: three calls were made while the first was executing; the third body
\* is running after the first two finished, and a fourth call is queued.
C9_Witness ==
    /\ Len(sBodyOrder) = 3
    /\ Len(mDeferreds) = 2
    /\ \E c \in Callers : sPc[c] = "body"
    /\ \E c \in Callers : sPc[c] = "waiting"

\* C10: dedupe drop law: a call made while the pair is Busy executes nothing,
\* changes no state and returns without throwing; a busy period starts with
\* exactly one execution of the body and sees no other.
C10_DedupeDropLaw ==
    /\ [][(ddActive /\ ddCount' # ddCount) =>
              /\ ddState'[ddCount'] = "dropped"
              /\ ddExecs' = ddExecs
              /\ ddActive' = ddActive
              /\ ddOutcome' = ddOutcome
              /\ \A i \in 1..ddCount : ddState'[i] = ddState[i]]_vars
    /\ [][ddActive => ddExecs' = ddExecs]_vars
    /\ [][(~ddActive /\ ddActive') => ddExecs' = ddExecs + 1]_vars
    /\ [](\A i \in DedupeCalls : ddState[i] = "dropped" => ddOutcome[i] = "none")

\* C10 witness: three calls were made during the busy period of the first (its body
\* has ended and its window is still open); one execution happened, two calls
\* were dropped.
C10_Witness ==
    /\ ddActive
    /\ ddCount = 3
    /\ ddState[1] = "window"
    /\ ddState[2] = "dropped"
    /\ ddState[3] = "dropped"
    /\ ddExecs = 1

\* C11: debounce freshest-argument law: every execution uses the arguments of the
\* most recent call made when the slot is taken; with a delay, calls a1..ak that
\* all arrive before the first execution starts lead to that execution, which uses
\* ak, and to no other execution.
C11_DebounceFreshest ==
    /\ [](\A k \in 1..Len(dbExecs) : dbExecs[k].args = dbExecs[k].calls)
    /\ []((dbDelay /\ Len(dbExecs) >= 1 /\ dbCount = dbExecs[1].calls) =>
              (Len(dbExecs) = 1 /\ dbExecs[1].args = dbCount))
    /\ (dbCount >= 1) ~> (Len(dbExecs) >= 1)

\* C11 witness: three calls arrived during the delay of the first; the one
\* execution that followed used the third call's arguments and has completed.
C11_Witness ==
    /\ dbDelay
    /\ dbCount = 3
    /\ Len(dbExecs) = 1
    /\ dbExecs[1].args = 3
    /\ dbExecs[1].by = 1
    /\ dbState[1] = "returned"
    /\ dbState[2] = "absorbed" /\ dbState[3] = "absorbed"

\* C12: whichever of the four decorators wraps the method, at most one invocation
\* of the method body is in progress for the instance in every reachable state.
C12_OneBodyAtATime ==
    /\ Cardinality({i \in DedupeCalls : ddState[i] = "body"}) <= 1
    /\ Cardinality({i \in DebounceCalls : dbState[i] = "body"}) <= 1
    /\ Cardinality({i \in ThrottleCalls : thState[i] = "body"}) <= 1
    /\ Cardinality({c \in Callers : sPc[c] = "body"}) <= 1

\* C12 witness: a debounce-wrapped method is executing its body for the second
\* time, on behalf of a call absorbed during the first execution, and one more
\* call has arrived meanwhile.
C12_Witness ==
    /\ inUse = "debounce"
    /\ Len(dbExecs) = 2
    /\ dbState[1] = "body"
    /\ dbState[2] = "absorbed"
    /\ dbState[3] = "absorbed"
    /\ dbSlot = 3

\* C13: a Deferred settles exactly once: after any sequence of resolve and reject
\* calls its promise has the outcome of the first call, and no call raised an error.
C13_SettlesOnce ==
    /\ dfCalls = <<>> => dfPromise.status = "pending"
    /\ dfCalls # <<>> =>
           dfPromise = [status |-> IF dfCalls[1].op = "resolve" THEN "fulfilled"
                                   ELSE "rejected",
                        value |-> dfCalls[1].arg]
    /\ ~dfRaised

\* C13 witness: resolve(v1), then reject(E1), then resolve(v2) were called; the
\* promise is fulfilled with v1.
C13_Witness ==
    /\ Len(dfCalls) = 3
    /\ dfCalls[1] = [op |-> "resolve", arg |-> "v1"]
    /\ dfCalls[2] = [op |-> "reject", arg |-> "E1"]
    /\ dfCalls[3] = [op |-> "resolve", arg |-> "v2"]
    /\ dfPromise = [status |-> "fulfilled", value |-> "v1"]

\* C14: throttle leading edge and spacing: a call on an Idle instance starts the
\* method body in the same turn, with its own arguments; and with a delay
\* configured every later execution starts only when the full delay has passed
\* since the previous execution finished, and never while one is running.
C14_ThrottleLeadingEdgeSpacing ==
    /\ [][(~thActive /\ thCount' # thCount) =>
              /\ thExecs' = Append(thExecs, thExecs'[Len(thExecs')])
              /\ thExecs'[Len(thExecs')].args = thCount'
              /\ thExecs'[Len(thExecs')].by = thCount'
              /\ thState'[thCount'] = "body"]_vars
    /\ [](\A k \in 1..Len(thExecs) : thExecs[k].running = {})
    /\ [](thDelay => \A k \in 2..Len(thExecs) : thExecs[k].sinceEnd >= DelayTicks)

\* C14 witness: with a delay configured the body ran three times: for the first
\* call at once, for a call absorbed meanwhile after the delay, and for a call
\* made on the instance once it was Idle again.
C14_Witness ==
    /\ thDelay
    /\ Len(thExecs) = 3
    /\ thExecs[1].by = 1
    /\ thExecs[2].by = 1 /\ thExecs[2].args = 2
    /\ thExecs[3].by = 3 /\ thExecs[3].args = 3

\* C15: throttle drops over-frequent calls: the arguments of a call made while an
\* execution or the delay window after it is in progress are never executed.
C15_ThrottleDropsAbsorbed ==
    thDelay => \A k \in 1..Len(thExecs) : thState[thExecs[k].args] # "absorbed"

\* C16: debounce waits for quiet: with a delay configured, at every start of an
\* execution at least the full delay has passed since the most recent call.
C16_DebounceWaitsForQuiet ==
    dbDelay => \A k \in 1..Len(dbExecs) : dbExecs[k].sinceCall >= DelayTicks

\* C17: dispose is idempotent: a dispose call on a disposed processor, whatever
\* its killQueue, starts no action and changes neither the pending queue nor the
\* executing set (so dispose(false) after dispose(true) executes nothing that was
\* left pending), and its future is resolved at once.
C17_DisposeIdempotent ==
    [][(bpDisposed /\ dispCount' # dispCount) =>
           /\ UNCHANGED <<bpQueue, bpExecuting, startOrder, aPhase, aCallback,
                          bpDisposed, bpTimers, dispKill>>
           /\ dispState'[dispCount'] = "resolved"]_vars

\* C17 witness: dispose(true) left two actions pending and one in flight; a second
\* dispose call has been made and has returned, and the two are still pending.
C17_Witness ==
    /\ bpDisposed /\ dispKill
    /\ dispCount = 2
    /\ dispState[2] = "resolved"
    /\ Len(bpQueue) = 2
    /\ Len(bpExecuting) = 1
    /\ \A a \in SeqToSet(bpQueue) : aPhase[a] = "pending"

\* C18: idle pacing: whenever the loop arms its timer the delay is 0 exactly when
\* breakOnlyWhenNoWork is set and the pending queue is non-empty at that moment,
\* and breakIntervalMilliseconds otherwise; a timer that fires on an empty queue
\* is armed again with the full interval, and submitting an action neither
\* re-arms nor shortens the timer that is running.
C18_IdlePacing ==
    /\ [][(~(bpTimers > 0) /\ (bpTimers' > 0)) =>
              bpTimerDelay' = IF bpBreakOnly /\ Len(bpQueue') > 0 THEN 0
                              ELSE bpInterval]_vars
    /\ [][((bpTimers > 0) /\ (bpTimers' > 0) /\ bpQueue = <<>> /\ bpCount' = bpCount) =>
              bpTimerDelay' = bpInterval]_vars
    /\ [][(bpCount' # bpCount) => UNCHANGED <<bpTimers, bpTimerDelay>>]_vars
    /\ []((bpTimers > 0) =>
              /\ bpTimerDelay \in {0, bpInterval}
              /\ (bpTimerDelay # bpInterval => (bpBreakOnly /\ Len(bpQueue) > 0))
              /\ (bpQueue = <<>> => bpTimerDelay = bpInterval))

\* C18 witness: with breakOnlyWhenNoWork and the default interval, an action has
\* completed while another was queued, and the timer is armed with delay 0.
C18_Witness ==
    /\ bpBreakOnly
    /\ bpInterval = DefaultBreakInterval
    /\ (bpTimers > 0)
    /\ bpTimerDelay = 0
    /\ Len(bpQueue) > 0
    /\ Len(startOrder) >= 1
    /\ aPhase[startOrder[1]] = "done"

\* C19: a failure inside a lock-protected section never leaves the mutex stuck:
\* when the caller of a lock/try/finally-release section or of a synchronize-wrapped
\* method has got the section's error, the lock is no longer held for that call;
\* the lock is only ever held for a call that is still under way; and every call
\* waiting for the lock acquires it and executes.
C19_FailureReleasesLock ==
    /\ [](\A c \in Callers :
              (mPc[c] = "idle" /\ mResult[c] = "error") => mCurrent # mDef[c])
    /\ [](\A c \in Callers :
              (sPc[c] = "idle" /\ sResult[c] = "error") => mCurrent # mDef[c])
    /\ [](mCurrent # Null =>
              \E c \in Callers :
                  /\ mDef[c] = mCurrent
                  /\ \/ mPc[c] \in {"waiting", "holding"}
                     \/ sPc[c] \in {"waiting", "body", "delay"})
    /\ \A c \in Callers : (mPc[c] = "waiting") ~> (mPc[c] = "holding")
    /\ \A c \in Callers : (sPc[c] = "waiting") ~> (sPc[c] = "body")

\* C19 witness: two sections in a row have failed and their callers have the
\* error; the call that locked next is in its section.
C19_Witness ==
    /\ inUse = "mutex"
    /\ \E c, d, h \in Callers :
           /\ mPc[c] = "idle" /\ mResult[c] = "error" /\ mDef[c] = 1
           /\ mPc[d] = "idle" /\ mResult[d] = "error" /\ mDef[d] = 2
           /\ mPc[h] = "holding" /\ mDef[h] = 3
    /\ mCurrent = 3

\* C20: failure attribution in debounce and throttle: the call whose loop ran a
\* failed execution gets the rejection (for throttle once the delay in its finally
\* block is over), and that call is one that found the instance Idle; a call is
\* rejected only for a failed execution of its own loop; a call absorbed while
\* Busy has returned without error and stays so.
C20_FailureAttribution ==
    /\ [](\A k \in 1..Len(dbExecs) :
              /\ dbState[dbExecs[k].by] # "absorbed"
              /\ dbExecs[k].outcome = "error" => dbState[dbExecs[k].by] = "threw")
    /\ [](\A k \in 1..Len(thExecs) :
              /\ thState[thExecs[k].by] # "absorbed"
              /\ thExecs[k].outcome = "error" =>
                     thState[thExecs[k].by] \in {"delay", "threw"})
    /\ [](\A i \in DebounceCalls :
              dbState[i] = "threw" =>
                  \E k \in 1..Len(dbExecs) :
                      dbExecs[k].by = i /\ dbExecs[k].outcome = "error")
    /\ [](\A i \in ThrottleCalls :
              thState[i] = "threw" =>
                  \E k \in 1..Len(thExecs) :
                      thExecs[k].by = i /\ thExecs[k].outcome = "error")
    /\ [][\A i \in DebounceCalls :
              dbState[i] = "absorbed" => dbState'[i] = "absorbed"]_vars
    /\ [][\A i \in ThrottleCalls :
              thState[i] = "absorbed" => thState'[i] = "absorbed"]_vars

\* C20 witness: a debounce loop started by the first call ran the thunk of the
\* second call, absorbed meanwhile, and that execution failed: the first call is
\* rejected, the second stays returned.
C20_Witness ==
    /\ inUse = "debounce"
    /\ Len(dbExecs) = 2
    /\ dbExecs[1].outcome = "ok"
    /\ dbExecs[2].args = 2 /\ dbExecs[2].by = 1 /\ dbExecs[2].outcome = "error"
    /\ dbState[1] = "threw"
    /\ dbState[2] = "absorbed"

\* C22: Mutex structural invariant: after any sequence of lock() and release()
\* calls the current-holder reference is null exactly when the queue is empty, and
\* otherwise it is the queue's head, whose future is resolved.
C22_MutexStructure ==
    /\ mCurrent = Null <=> mDeferreds = <<>>
    /\ mDeferreds # <<>> =>
           /\ mCurrent = mDeferreds[1]
           /\ dState[mDeferreds[1]] = "resolved"

\* C22 witness: after a release() by a caller that was not the holder, two callers
\* are in their critical sections and two later calls are queued, the head granted.
C22_Witness ==
    /\ Cardinality({c \in Callers : mPc[c] = "holding"}) = 2
    /\ Len(mDeferreds) = 2
    /\ mCurrent = mDeferreds[1]
    /\ mCount = 4

\* C23: no starvation under disciplined use: when every holder releases once, every
\* lock() future eventually resolves.
C23_NoStarvation ==
    \A d \in DeferredIds : (dState[d] = "pending") ~> (dState[d] = "resolved")

\* C23 witness: the fourth lock() future has resolved after its three predecessors
\* were granted and released, and its caller had to wait for it.
C23_Witness ==
    /\ Len(grantOrder) = 4
    /\ mDeferreds = <<4>>
    /\ \E c \in Callers : mDef[c] = 4 /\ mPc[c] = "waiting"
    /\ \E c \in Callers : mResult[c] # "none"

\* C28: mutual exclusion survives stray release() calls: whoever calls release(),
\* at most one caller at a time has acquired the lock and not yet released it.
C28_StrayReleaseKeepsExclusion ==
    Cardinality({c \in Callers :
                    \/ mPc[c] = "holding"
                    \/ mPc[c] = "waiting" /\ dState[mDef[c]] = "resolved"}) <= 1

\* C24: the mutex is not re-entrant: once the holder awaits a second lock() before
\* releasing, it waits forever, and its second future and every lock() future
\* requested after it stay pending.
C24_NotReentrant ==
    [][\A c \in Callers :
          /\ mPc[c] = "relocking" => mPc'[c] = "relocking"
          /\ mPc'[c] = "relocking" =>
                 \A d \in DeferredIds :
                     (d >= mDef'[c] /\ dState'[d] # "unborn") => dState'[d] = "pending"]_vars

\* C24 witness: the deadlock: the holder awaits its own second lock() and the two
\* callers that asked afterwards wait behind it.
C24_Witness ==
    \E c \in Callers :
        /\ mPc[c] = "relocking"
        /\ \A o \in Callers \ {c} :
               mPc[o] = "waiting" /\ mDef[o] > mDef[c] /\ dState[mDef[o]] = "pending"

\* C25: BackgroundProcessor membership: a submitted action is in the pending
\* queue or in the executing set, never in both and never twice, until its
\* completion callback runs, and in neither afterwards; it is started at most once.
C25_Membership ==
    \A a \in ActionIds :
        LET inQueue == Occurrences(bpQueue, a)
            inExecuting == Occurrences(bpExecuting, a)
            submitted == Occurrences(submitOrder, a) = 1
        IN  /\ inQueue + inExecuting <= 1
            /\ (submitted /\ aCallbackRuns[a] = 0) => inQueue + inExecuting = 1
            /\ (~submitted \/ aCallbackRuns[a] > 0) => inQueue + inExecuting = 0
            /\ inQueue = 1 <=> aPhase[a] = "pending"
            /\ inExecuting = 1 <=> aPhase[a] \in {"running", "handling"}
            /\ Occurrences(startOrder, a) = IF aPhase[a] \in {"running", "handling", "done"}
                                            THEN 1 ELSE 0

\* C25 witness: of three submitted actions the first has completed, the second is
\* executing and the third is still queued.
C25_Witness ==
    /\ aCallbackRuns[1] = 1
    /\ bpExecuting = <<2>>
    /\ bpQueue = <<3>>
    /\ ~bpDisposed

\* C26: the loop neither forks nor dies: the completion callback of a started
\* action has run exactly once when the action is done and not before; at most one
\* scheduling timer is pending; while the processor is not disposed exactly one
\* of "one timer pending" and "one loop-started action executing" holds, and
\* once it is disposed no timer is pending.
C26_LoopNeitherForksNorDies ==
    LET loopRunning == {a \in ActionIds : /\ aPhase[a] \in {"running", "handling"}
                                          /\ aCallback[a] = "loop"}
    IN  /\ \A a \in ActionIds :
               aCallbackRuns[a] = IF aPhase[a] = "done" THEN 1 ELSE 0
        /\ bpTimers <= 1
        /\ ~bpDisposed => bpTimers + Cardinality(loopRunning) = 1
        /\ bpDisposed => bpTimers = 0

\* C26 witness: the loop has completed one action that succeeded and one whose
\* failure went to the error handler, a third is executing, and no timer is pending.
C26_Witness ==
    /\ ~bpDisposed
    /\ bpTimers = 0
    /\ \E a, b, c \in ActionIds :
           /\ aPhase[a] = "done" /\ aHandlerLog[a] = <<>> /\ aCallbackRuns[a] = 1
           /\ aPhase[b] = "done" /\ aHandlerLog[b] # <<>> /\ aCallbackRuns[b] = 1
           /\ aPhase[c] = "handling" /\ aCallback[c] = "loop"

\* C27: every future returned by dispose resolves only when the executing set is
\* empty.
C27_DisposeWaitsForInFlight ==
    [][\A k \in DisposeIds :
          (dispState[k] # "resolved" /\ dispState'[k] = "resolved") =>
              bpExecuting' = <<>>]_vars

\* C30: dedupe always returns to Idle: when the body of the executing call ends,
\* with a result or an error, the pair stays Busy through the window and then
\* becomes Idle; the call's future settles, with the body's outcome, only at the
\* end of the window; calls made while Busy are dropped and a call made when Idle
\* executes the body.
C30_DedupeReturnsToIdle ==
    /\ [](\A i \in DedupeCalls :
              /\ ddState[i] \in {"body", "window"} => ddActive
              /\ ddState[i] = "returned" => ddOutcome[i] = "ok"
              /\ ddState[i] = "threw" => ddOutcome[i] = "error")
    /\ [][\A i \in DedupeCalls :
              /\ (ddDelay /\ ddState[i] = "body") => ddState'[i] \in {"body", "window"}
              /\ (ddDelay /\ ddState[i] # ddState'[i]
                          /\ ddState'[i] \in {"returned", "threw"}) =>
                     ddState[i] = "window" /\ ~ddActive']_vars
    /\ [][ddCount' # ddCount =>
              IF ddActive THEN ddState'[ddCount'] = "dropped" /\ ddExecs' = ddExecs
              ELSE ddExecs' = ddExecs + 1]_vars
    /\ ddActive ~> ~ddActive
    /\ \A i \in DedupeCalls :
           (ddState[i] \in {"body", "window"}) ~> (ddState[i] \in {"returned", "threw"})

\* C30 witness: with a window, the first call's body failed and its future was
\* rejected after the window, the second call was dropped meanwhile, and the
\* third call, made when Idle again, is executing the body.
C30_Witness ==
    /\ ddDelay
    /\ ddState[1] = "threw"
    /\ ddState[2] = "dropped"
    /\ ddState[3] = "body"
    /\ ddExecs = 2

\* C29: a debounce call absorbed while Busy is never stranded: whenever the pair
\* is Idle and no call is in its drain loop, the scheduled-call slot is empty.
C29_NoStrandedCall ==
    (~dbActive /\ \A i \in DebounceCalls : dbState[i] \notin {"delay", "body"}) =>
        dbSlot = Null

\* C21: Make.loopAsync(f, n, p) with p > 0, as long as no invocation has failed:
\* f has been invoked once with each of the indexes 0, 1, ... reached so far and
\* with no other, at most p invocations are in flight, the call is not rejected,
\* and its future is resolved only when f had been invoked with every index
\* 0..n-1 and all n invocations have completed.
C21_BoundedParallelism ==
    LET inFlight == {t \in 1..Len(laTasks) : laTasks[t].promise = "pending"}
        noFailure == \A t \in 1..Len(laTasks) : laTasks[t].promise # "rejected"
    IN  (laP > 0 /\ noFailure) =>
            /\ laIndex <= laN
            /\ Len(laInvoked) = laIndex
            /\ \A k \in 1..Len(laInvoked) : laInvoked[k] = k - 1
            /\ \A t, u \in inFlight : t # u => laTasks[t].item # laTasks[u].item
            /\ Cardinality(inFlight) <= laP
            /\ laPc # "rejected"
            /\ laPc = "resolved" =>
                   /\ laIndex = laN
                   /\ laDone = 0..(laN - 1)
                   /\ inFlight = {}

\* C21 witness: a call with more items than degrees of parallelism has resolved
\* after every invocation completed, none having failed.
C21_Witness ==
    /\ laP > 0
    /\ laN > laP
    /\ laPc = "resolved"
    /\ laDone = 0..(laN - 1)
    /\ \A t \in 1..Len(laTasks) : laTasks[t].promise = "resolved"

====
